---- MODULE Spec2Model ----
(***************************************************************************)
(* Model of the activity classifier of src/src/App.tsx: the React state    *)
(* previousPositions / wristPositions, the 100ms interval that starts the  *)
(* asynchronous detectPose, and the pure functions calculateAngle,         *)
(* calculateDistance, isMoving, isWaving and determineActivity.            *)
(*                                                                         *)
(* Numbers.  Keypoint coordinates are integers (pixels).  Angles are in   *)
(* thousandths of a degree.  Pose and keypoint scores are percentages      *)
(* (0.3 is 30).  A mean is kept as its sum, and the comparison with the    *)
(* threshold is cross-multiplied by the number of terms, which is exact on *)
(* integer terms.  Segment distances averaged over the two body sides are  *)
(* kept doubled (left + right), and ratios are compared cross-multiplied.  *)
(***************************************************************************)
EXTENDS Integers, Sequences, FiniteSets, TLC

VARIABLES
    detector,           \* useState detector: FALSE = null, TRUE = loaded
    isWebcamReady,      \* useState isWebcamReady
    hasVideoStream,     \* useState hasVideoStream
    videoOk,            \* the <video> element: readyState 4 and a non-zero size
    currentActivity,    \* useState currentActivity
    previousPositions,  \* useState previousPositions (PositionHistory)
    wristPositions,     \* useState wristPositions (WristHistory)
    inflight,           \* detectPose calls suspended at await estimatePoses
    stream,             \* which camera stream the session sees
    pos,                \* number of video frames already handed to estimatePoses
    posLog,             \* history variable: every sample appended to previousPositions
    wristLog,           \* history variable: every sample appended to wristPositions
    lastCall            \* history variable: the detectPose call that last ran its continuation

vars == <<detector, isWebcamReady, hasVideoStream, videoOk, currentActivity,
          previousPositions, wristPositions, inflight, stream, pos,
          posLog, wristLog, lastCall>>

----------------------------------------------------------------------------
(* Bounds of the model *)

MaxInFlight == 2        \* detectPose calls that may be suspended at once

----------------------------------------------------------------------------
(* Array helpers: Array.prototype.slice(-n) and slice(1) *)

Min(a, b) == IF a < b THEN a ELSE b

Abs(a) == IF a < 0 THEN -a ELSE a

sliceLast(arr, n) ==
    IF Len(arr) <= n THEN arr ELSE SubSeq(arr, Len(arr) - n + 1, Len(arr))

sliceFrom1(arr) == IF Len(arr) <= 1 THEN <<>> ELSE SubSeq(arr, 2, Len(arr))

RECURSIVE SumSeq(_)
SumSeq(s) == IF s = <<>> THEN 0 ELSE Head(s) + SumSeq(Tail(s))

RECURSIVE Gcd(_, _)
Gcd(a, b) == IF b = 0 THEN a ELSE Gcd(b, a % b)

----------------------------------------------------------------------------
(* Math.sqrt on the squares the frames of the model produce, by bisection. *)
(* On a non-square the search ends in a CHOOSE that has no value, so a     *)
(* frame outside the exact domain is an evaluation error in TLC, never a   *)
(* rounded distance.                                                       *)

RECURSIVE SqrtBetween(_, _, _)
SqrtBetween(n, lo, hi) ==
    IF lo > hi THEN CHOOSE r \in {} : r * r = n
    ELSE LET mid == (lo + hi) \div 2
         IN  IF mid * mid = n THEN mid
             ELSE IF mid * mid < n THEN SqrtBetween(n, mid + 1, hi)
             ELSE SqrtBetween(n, lo, mid - 1)

Sqrt(n) == SqrtBetween(n, 0, Min(n, 46340))

(* Math.atan2(dy, dx) * 180 / Math.PI in thousandths of a degree, on the   *)
(* directions the frames of the model produce (axis, diagonal and 3-4-5    *)
(* directions); atan2(0, 0) is 0.  On these directions the comparisons of  *)
(* calculateAngle's result with 45, 100, 120 and 160 agree with the        *)
(* double arithmetic of the code.  No OTHER branch: a direction outside    *)
(* the table is an evaluation error in TLC.                                *)
Atan2Deg(dy, dx) ==
    LET g == Gcd(Abs(dx), Abs(dy))
        ux == IF g = 0 THEN 0 ELSE dx \div g
        uy == IF g = 0 THEN 0 ELSE dy \div g
    IN  CASE ux = 0 /\ uy = 0 -> 0
          [] ux = 1 /\ uy = 0 -> 0
          [] ux = -1 /\ uy = 0 -> 180000
          [] ux = 0 /\ uy = 1 -> 90000
          [] ux = 0 /\ uy = -1 -> -90000
          [] ux = 1 /\ uy = 1 -> 45000
          [] ux = 1 /\ uy = -1 -> -45000
          [] ux = -1 /\ uy = 1 -> 135000
          [] ux = -1 /\ uy = -1 -> -135000
          [] ux = 3 /\ uy = 4 -> 53130
          [] ux = 3 /\ uy = -4 -> -53130
          [] ux = -3 /\ uy = 4 -> 126870
          [] ux = -3 /\ uy = -4 -> -126870
          [] ux = 4 /\ uy = 3 -> 36870
          [] ux = 4 /\ uy = -3 -> -36870
          [] ux = -4 /\ uy = 3 -> 143130
          [] ux = -4 /\ uy = -3 -> -143130

(* calculateAngle: |atan2(p3 - p2) - atan2(p1 - p2)| in degrees, reflected *)
(* to 360 - angle above 180.                                               *)
calculateAngle(p1, p2, p3) ==
    LET degrees == Atan2Deg(p3.y - p2.y, p3.x - p2.x)
                   - Atan2Deg(p1.y - p2.y, p1.x - p2.x)
        angle == Abs(degrees)
    IN  IF angle > 180000 THEN 360000 - angle ELSE angle

(* calculateDistance: Euclidean distance *)
calculateDistance(p1, p2) ==
    Sqrt((p2.x - p1.x) * (p2.x - p1.x) + (p2.y - p1.y) * (p2.y - p1.y))

----------------------------------------------------------------------------
(* isMoving without its length check *)
isMovingNoGuard(currentPos, prevPositions) ==
    IF Len(prevPositions) < 2 THEN FALSE
    ELSE LET recentPositions == sliceLast(prevPositions, 5)
             steps == [idx \in 1..Len(recentPositions) |->
                         IF idx = 1 THEN 0
                         ELSE calculateDistance(recentPositions[idx - 1],
                                                recentPositions[idx])]
         IN  SumSeq(steps) > 15 * (Len(recentPositions) - 1)

(* isMoving: reads the previousPositions of the render whose closure the   *)
(* call runs in; its argument currentPos is not used by the code.          *)
(* avgMovement > 15 is stepSum / (n - 1) > 15, cross-multiplied.           *)
isMoving(currentPos, prevPositions) ==
    IF Len(prevPositions) < 5 THEN FALSE
    ELSE LET recentPositions == sliceLast(prevPositions, 5)
             steps == [idx \in 1..Len(recentPositions) |->
                         IF idx = 1 THEN 0
                         ELSE calculateDistance(recentPositions[idx - 1],
                                                recentPositions[idx])]
         IN  SumSeq(steps) > 15 * (Len(recentPositions) - 1)

(* The map(...).slice(1) of isWaving for one wrist and one coordinate *)
wristChanges(recentWristPositions, side, axis) ==
    sliceFrom1([idx \in 1..Len(recentWristPositions) |->
                  IF idx = 1 THEN 0
                  ELSE Abs(recentWristPositions[idx][side][axis]
                           - recentWristPositions[idx - 1][side][axis])])

(* avgX > 20 && avgX > 2 * avgY for one wrist: both means are over the     *)
(* same number of terms, so the second comparison is one of the sums.      *)
wristWaving(recentWristPositions, side) ==
    LET xChanges == wristChanges(recentWristPositions, side, "x")
        yChanges == wristChanges(recentWristPositions, side, "y")
    IN  /\ SumSeq(xChanges) > 20 * Len(xChanges)
        /\ SumSeq(xChanges) > 2 * SumSeq(yChanges)

(* isWaving that asks both wrists to wave *)
isWavingBothWrists(wristHistory) ==
    IF Len(wristHistory) < 10 THEN FALSE
    ELSE LET recentWristPositions == sliceLast(wristHistory, 10)
         IN  /\ wristWaving(recentWristPositions, "left")
             /\ wristWaving(recentWristPositions, "right")

(* isWaving *)
isWaving(wristHistory) ==
    IF Len(wristHistory) < 10 THEN FALSE
    ELSE LET recentWristPositions == sliceLast(wristHistory, 10)
             leftWristWaving == wristWaving(recentWristPositions, "left")
             rightWristWaving == wristWaving(recentWristPositions, "right")
         IN  leftWristWaving \/ rightWristWaving

----------------------------------------------------------------------------
(* keypoints.find((kp) => kp.name === name): the first keypoint of that    *)
(* name, or undefined.                                                     *)

undefined == [name |-> "undefined", x |-> 0, y |-> 0, score |-> 0]

findKeypoint(keypoints, name) ==
    LET found == {i \in 1..Len(keypoints) : keypoints[i].name = name}
    IN  IF found = {} THEN undefined
        ELSE keypoints[CHOOSE i \in found : \A j \in found : i <= j]

(* a / total compared with num / den; a division by a zero totalHeight is  *)
(* NaN, and every comparison with NaN is false.                            *)
ratioAbove(a, total, num, den) == total # 0 /\ a * den > num * total

ratioBelow(a, total, num, den) == total # 0 /\ a * den < num * total

(* The 13 keypoints determineActivity looks up *)
RequiredNames ==
    {"nose", "left_shoulder", "right_shoulder", "left_elbow", "right_elbow",
     "left_wrist", "right_wrist", "left_hip", "right_hip", "left_knee",
     "right_knee", "left_ankle", "right_ankle"}

(* A check that also rejects a keypoint whose score is under 0.3 *)
anyMissingOrLowScore(keypoints) ==
    \E n \in RequiredNames :
        \/ findKeypoint(keypoints, n) = undefined
        \/ findKeypoint(keypoints, n).score < 30

(* !nose || !leftShoulder || ... || !rightAnkle *)
anyMissing(keypoints) ==
    \E n \in RequiredNames : findKeypoint(keypoints, n) = undefined

(* The keypoints, angles and distances determineActivity computes once all *)
(* 13 keypoints are found.  shoulderHipDist, hipKneeDist, kneeAnkleDist    *)
(* and totalHeight are twice the code's values (left + right, not their    *)
(* mean); they are only used in ratios.                                    *)
poseFeatures(keypoints) ==
    LET nose == findKeypoint(keypoints, "nose")
        leftShoulder == findKeypoint(keypoints, "left_shoulder")
        rightShoulder == findKeypoint(keypoints, "right_shoulder")
        leftWrist == findKeypoint(keypoints, "left_wrist")
        rightWrist == findKeypoint(keypoints, "right_wrist")
        leftHip == findKeypoint(keypoints, "left_hip")
        rightHip == findKeypoint(keypoints, "right_hip")
        leftKnee == findKeypoint(keypoints, "left_knee")
        rightKnee == findKeypoint(keypoints, "right_knee")
        leftAnkle == findKeypoint(keypoints, "left_ankle")
        rightAnkle == findKeypoint(keypoints, "right_ankle")
        shoulderHipDist == calculateDistance(leftShoulder, leftHip)
                           + calculateDistance(rightShoulder, rightHip)
        hipKneeDist == calculateDistance(leftHip, leftKnee)
                       + calculateDistance(rightHip, rightKnee)
        kneeAnkleDist == calculateDistance(leftKnee, leftAnkle)
                         + calculateDistance(rightKnee, rightAnkle)
    IN  [nose |-> nose,
         leftShoulder |-> leftShoulder, rightShoulder |-> rightShoulder,
         leftWrist |-> leftWrist, rightWrist |-> rightWrist,
         leftHip |-> leftHip, rightHip |-> rightHip,
         leftKnee |-> leftKnee, rightKnee |-> rightKnee,
         leftKneeAngle |-> calculateAngle(leftHip, leftKnee, leftAnkle),
         rightKneeAngle |-> calculateAngle(rightHip, rightKnee, rightAnkle),
         leftHipAngle |-> calculateAngle(leftShoulder, leftHip, leftKnee),
         rightHipAngle |-> calculateAngle(rightShoulder, rightHip, rightKnee),
         shoulderHipDist |-> shoulderHipDist,
         hipKneeDist |-> hipKneeDist,
         totalHeight |-> shoulderHipDist + hipKneeDist + kneeAnkleDist]

(* The conditions of determineActivity on the features f *)
armsRaised(f) ==
    /\ f.leftWrist.y < f.leftShoulder.y - 50
    /\ f.rightWrist.y < f.rightShoulder.y - 50

isSquatting(f) ==
    /\ f.leftKneeAngle < 100000
    /\ f.rightKneeAngle < 100000
    /\ f.leftHipAngle > 45000
    /\ f.rightHipAngle > 45000
    /\ Abs(f.leftShoulder.y - f.rightShoulder.y) < 30
    /\ 2 * f.nose.y > f.leftShoulder.y + f.rightShoulder.y

isSitting(f) ==
    /\ f.leftKneeAngle < 120000
    /\ f.rightKneeAngle < 120000
    /\ f.leftHip.y > f.leftKnee.y - 20
    /\ f.rightHip.y > f.rightKnee.y - 20
    /\ ratioBelow(f.shoulderHipDist, f.totalHeight, 4, 10)
    /\ ratioAbove(f.hipKneeDist, f.totalHeight, 3, 10)

isStanding(f) ==
    /\ f.leftKneeAngle > 160000
    /\ f.rightKneeAngle > 160000
    /\ Abs(f.leftShoulder.y - f.rightShoulder.y) < 30
    /\ Abs(f.leftHip.y - f.rightHip.y) < 30
    /\ Abs(f.leftKnee.y - f.rightKnee.y) < 30
    /\ ratioAbove(f.shoulderHipDist, f.totalHeight, 3, 10)
    /\ ratioAbove(f.hipKneeDist, f.totalHeight, 3, 10)

(* A chain in which the standing check comes first *)
ruleChainStandingFirst(raised, waving, squatting, sitting, moving, standing) ==
    IF standing THEN "Standing"
    ELSE IF raised THEN "Raising Hands"
    ELSE IF waving THEN "Waving"
    ELSE IF squatting THEN "Squatting"
    ELSE IF sitting THEN "Sitting"
    ELSE IF moving THEN "Movement"
    ELSE "Stable"

(* The if / return chain of determineActivity *)
ruleChain(raised, waving, squatting, sitting, moving, standing) ==
    IF raised THEN "Raising Hands"
    ELSE IF waving THEN "Waving"
    ELSE IF squatting THEN "Squatting"
    ELSE IF sitting THEN "Sitting"
    ELSE IF moving THEN "Movement"
    ELSE IF standing THEN "Standing"
    ELSE "Stable"

(* determineActivity, with the two React states its closure reads made     *)
(* explicit.                                                               *)
determineActivity(keypoints, prevPositions, wristHistory) ==
    IF Len(keypoints) = 0 THEN "Stable"
    ELSE IF anyMissing(keypoints) THEN "Stable"
    ELSE LET f == poseFeatures(keypoints)
         IN  ruleChain(armsRaised(f),
                       isWaving(wristHistory),
                       isSquatting(f),
                       isSitting(f),
                       isMoving([x |-> f.nose.x, y |-> f.nose.y], prevPositions),
                       isStanding(f))

----------------------------------------------------------------------------
(* Camera input.  A video frame is described by the pose it shows; the     *)
(* frames are what detector.estimatePoses returns for them.  The nose is   *)
(* at y = 40 and the hips at y = 200; the shoulders are at y = 100, except *)
(* in the pose "crouch", a squat with the shoulders at y = 20, above the   *)
(* nose.  All segments lie on axis or 3-4-5 directions.                    *)

F0 == [pose |-> "stand", nx |-> 0, lwx |-> 0, rwx |-> 0,
       lwy |-> 200, rwy |-> 200, drop |-> {}, low |-> {}, score |-> 80,
       poses |-> 1, throws |-> FALSE]

(* MoveNet's 17 keypoints, in its order *)
KeypointOrder ==
    <<"nose", "left_eye", "right_eye", "left_ear", "right_ear",
      "left_shoulder", "right_shoulder", "left_elbow", "right_elbow",
      "left_wrist", "right_wrist", "left_hip", "right_hip", "left_knee",
      "right_knee", "left_ankle", "right_ankle">>

KneeOf(pose, side) ==
    CASE pose = "stand" -> IF side = "left" THEN <<220, 300>> ELSE <<180, 300>>
      [] pose \in {"squat", "crouch"} ->
            IF side = "left" THEN <<300, 260>> ELSE <<100, 260>>
      [] pose = "sit" -> IF side = "left" THEN <<320, 200>> ELSE <<80, 200>>
      [] pose = "bent" -> IF side = "left" THEN <<220, 300>> ELSE <<180, 300>>

AnkleOf(pose, side) ==
    CASE pose = "stand" -> IF side = "left" THEN <<220, 400>> ELSE <<180, 400>>
      [] pose \in {"squat", "crouch"} ->
            IF side = "left" THEN <<220, 320>> ELSE <<180, 320>>
      [] pose = "sit" -> IF side = "left" THEN <<320, 300>> ELSE <<80, 300>>
      [] pose = "bent" -> IF side = "left" THEN <<320, 300>> ELSE <<180, 400>>

ShoulderY(pose) == IF pose = "crouch" THEN 20 ELSE 100

PointOf(d, name) ==
    CASE name = "nose" -> <<200 + d.nx, 40>>
      [] name = "left_eye" -> <<205 + d.nx, 35>>
      [] name = "right_eye" -> <<195 + d.nx, 35>>
      [] name = "left_ear" -> <<210 + d.nx, 40>>
      [] name = "right_ear" -> <<190 + d.nx, 40>>
      [] name = "left_shoulder" -> <<220, ShoulderY(d.pose)>>
      [] name = "right_shoulder" -> <<180, ShoulderY(d.pose)>>
      [] name = "left_elbow" -> <<230, 150>>
      [] name = "right_elbow" -> <<170, 150>>
      [] name = "left_wrist" -> <<230 + d.lwx, d.lwy>>
      [] name = "right_wrist" -> <<170 + d.rwx, d.rwy>>
      [] name = "left_hip" -> <<220, 200>>
      [] name = "right_hip" -> <<180, 200>>
      [] name = "left_knee" -> KneeOf(d.pose, "left")
      [] name = "right_knee" -> KneeOf(d.pose, "right")
      [] name = "left_ankle" -> AnkleOf(d.pose, "left")
      [] name = "right_ankle" -> AnkleOf(d.pose, "right")

(* pose[0].keypoints of the frame described by d *)
KeypointsOf(d) ==
    LET all == [i \in 1..Len(KeypointOrder) |->
                  LET n == KeypointOrder[i]
                  IN  [name |-> n, x |-> PointOf(d, n)[1], y |-> PointOf(d, n)[2],
                       score |-> IF n \in d.low THEN 10 ELSE 90]]
        kept(k) == k.name \notin d.drop
    IN  SelectSeq(all, kept)

(* The streams of a session that starts with empty histories *)
WaveStream ==
    [i \in 1..11 |-> [F0 EXCEPT !.lwx = 30 * (i % 2)]]

WalkStream ==
    [i \in 1..6 |-> [F0 EXCEPT !.nx = 20 * i]]
    \o << [F0 EXCEPT !.pose = "sit", !.nx = 120],
          [F0 EXCEPT !.pose = "crouch", !.nx = 120] >>

MissingStream ==
    << [F0 EXCEPT !.lwy = 40, !.rwy = 40, !.nx = 10],
       [F0 EXCEPT !.lwy = 40, !.rwy = 40, !.nx = 20, !.low = {"right_ankle"}],
       [F0 EXCEPT !.nx = 30, !.drop = {"right_ankle"}],
       [F0 EXCEPT !.throws = TRUE],
       [F0 EXCEPT !.nx = 40, !.drop = {"nose"}, !.lwx = 5],
       [F0 EXCEPT !.nx = 50, !.drop = {"left_wrist"}] >>

PostureStream ==
    << [F0 EXCEPT !.pose = "crouch", !.nx = 10],
       [F0 EXCEPT !.pose = "squat", !.nx = 20],
       [F0 EXCEPT !.score = 20, !.nx = 30],
       [F0 EXCEPT !.pose = "sit", !.nx = 40],
       [F0 EXCEPT !.poses = 0],
       [F0 EXCEPT !.pose = "bent", !.nx = 50] >>

ArmsStream ==
    << [F0 EXCEPT !.drop = RequiredNames
                           \cup {"left_eye", "right_eye", "left_ear", "right_ear"}],
       [F0 EXCEPT !.lwy = 50, !.rwy = 50, !.nx = 10],
       [F0 EXCEPT !.lwy = 40, !.rwy = 200, !.nx = 20],
       [F0 EXCEPT !.pose = "squat", !.lwy = 40, !.rwy = 40, !.nx = 30] >>

(* The streams of a session that is already running *)
ProbeStream ==
    << [F0 EXCEPT !.pose = "crouch", !.lwx = 7, !.nx = 300],
       [F0 EXCEPT !.pose = "sit", !.lwx = 9, !.nx = 310],
       [F0 EXCEPT !.nx = 320, !.lwx = 11, !.drop = {"right_ankle"}],
       [F0 EXCEPT !.throws = TRUE],
       [F0 EXCEPT !.lwy = 40, !.rwy = 40, !.nx = 340] >>

StandStream ==
    << [F0 EXCEPT !.lwx = 3],
       [F0 EXCEPT !.score = 30],
       [F0 EXCEPT !.pose = "bent", !.lwx = 6],
       [F0 EXCEPT !.lwx = 9] >>

Streams == <<WaveStream, WalkStream, MissingStream, PostureStream, ArmsStream,
             ProbeStream, StandStream>>

FrameAt(s, i) == Streams[s][i]

----------------------------------------------------------------------------
(* Histories of a session that is already running *)

Alt(n, a) == [i \in 1..n |-> a * (i % 2)]

Still(n, a) == [i \in 1..n |-> a]

posOf(xs) == [i \in 1..Len(xs) |-> [x |-> 200 + xs[i], y |-> 40]]

posHist(n, step) == posOf([i \in 1..n |-> step * i])

wristOf(lxs, lys, rxs) ==
    [i \in 1..Len(lxs) |->
        [left |-> [x |-> 230 + lxs[i], y |-> 200 + lys[i]],
         right |-> [x |-> 170 + rxs[i], y |-> 200]]]

MidStates ==
    { [prev |-> <<>>, wrist |-> <<>>],
      [prev |-> posHist(5, 20), wrist |-> wristOf(Alt(10, 30), Still(10, 0), Still(10, 0))],
      [prev |-> posHist(5, 15), wrist |-> wristOf(Alt(10, 20), Still(10, 0), Still(10, 0))],
      [prev |-> posHist(5, 16), wrist |-> wristOf(Alt(10, 21), Still(10, 0), Still(10, 0))],
      [prev |-> posHist(4, 20), wrist |-> wristOf(Alt(9, 30), Still(9, 0), Still(9, 0))],
      [prev |-> posHist(10, 20), wrist |-> wristOf(Alt(20, 30), Alt(20, 15), Still(20, 0))],
      [prev |-> posHist(10, 0), wrist |-> wristOf(Alt(20, 30), Alt(20, 14), Still(20, 0))],
      [prev |-> posHist(10, 0), wrist |-> wristOf(Still(20, 0), Still(20, 0), Still(20, 0))],
      [prev |-> posHist(9, 20), wrist |-> wristOf(Still(19, 0), Still(19, 0), Alt(19, 30))],
      [prev |-> posOf(<<20, 40, 60, 80, 100, 100, 100, 100, 100, 100>>),
       wrist |-> wristOf(<<0, 200, 0, 200>> \o Still(10, 200), Still(14, 0), Still(14, 0))],
      [prev |-> posOf(<<0, 0, 0, 0, 0, 0, 0, 30, 61>>),
       wrist |-> wristOf(Still(5, 0) \o Alt(10, 30), Still(15, 0), Still(15, 0))],
      [prev |-> posOf(<<0, 0, 0, 30, 60>>),
       wrist |-> wristOf(<<0, 20, 0, 20, 0, 20, 0, 20, 0, 21>>, Still(10, 0), Still(10, 0))] }

----------------------------------------------------------------------------
(* The state machine *)

NoCall == [frame |-> 0, prev |-> <<>>, wrist |-> <<>>,
           posBefore |-> <<>>, wristBefore |-> <<>>]

(* State after the first render: the useState initial values *)
Init ==
    /\ detector = FALSE
    /\ isWebcamReady = FALSE
    /\ hasVideoStream = FALSE
    /\ videoOk = FALSE
    /\ currentActivity = "Stable"
    /\ previousPositions = <<>>
    /\ wristPositions = <<>>
    /\ inflight = {}
    /\ stream \in 1..5
    /\ pos = 0
    /\ posLog = <<>>
    /\ wristLog = <<>>
    /\ lastCall = NoCall

(* A session that is already running: model loaded, webcam streaming, and  *)
(* the samples of one of MidStates appended so far.                        *)
InitMid ==
    /\ detector = TRUE
    /\ isWebcamReady = TRUE
    /\ hasVideoStream = TRUE
    /\ videoOk = TRUE
    /\ currentActivity = "Stable"
    /\ \E m \in MidStates :
          /\ previousPositions = m.prev
          /\ wristPositions = m.wrist
          /\ posLog = m.prev
          /\ wristLog = m.wrist
    /\ inflight = {}
    /\ stream \in 6..7
    /\ pos = 0
    /\ lastCall = NoCall

(* loadModel: setDetector(detector), setIsLoading(false) *)
LoadModel ==
    /\ detector = FALSE
    /\ detector' = TRUE
    /\ UNCHANGED <<isWebcamReady, hasVideoStream, videoOk, currentActivity,
                   previousPositions, wristPositions, inflight, stream, pos,
                   posLog, wristLog, lastCall>>

(* <Webcam onUserMedia>: rendered only once the model is loaded *)
OnUserMedia ==
    /\ detector = TRUE
    /\ isWebcamReady = FALSE
    /\ isWebcamReady' = TRUE
    /\ UNCHANGED <<detector, hasVideoStream, videoOk, currentActivity,
                   previousPositions, wristPositions, inflight, stream, pos,
                   posLog, wristLog, lastCall>>

(* The video element reaches readyState 4 with a non-zero size *)
VideoPlays ==
    /\ isWebcamReady = TRUE
    /\ videoOk = FALSE
    /\ videoOk' = TRUE
    /\ UNCHANGED <<detector, isWebcamReady, hasVideoStream, currentActivity,
                   previousPositions, wristPositions, inflight, stream, pos,
                   posLog, wristLog, lastCall>>

(* checkVideoStream, every 100ms *)
CheckVideoStream ==
    /\ hasVideoStream # videoOk
    /\ hasVideoStream' = videoOk
    /\ UNCHANGED <<detector, isWebcamReady, videoOk, currentActivity,
                   previousPositions, wristPositions, inflight, stream, pos,
                   posLog, wristLog, lastCall>>

(* An interval tick calls detectPose, which passes its guards and suspends *)
(* at await detector.estimatePoses(video).  The call runs in the closure   *)
(* of the current render: it keeps that render's previousPositions and     *)
(* wristPositions.                                                         *)
DetectPoseStart ==
    /\ detector = TRUE
    /\ isWebcamReady = TRUE
    /\ hasVideoStream = TRUE
    /\ videoOk = TRUE
    /\ Cardinality(inflight) < MaxInFlight
    /\ pos < Len(Streams[stream])
    /\ pos' = pos + 1
    /\ inflight' = inflight \cup
          {[frame |-> pos + 1, prev |-> previousPositions, wrist |-> wristPositions]}
    /\ UNCHANGED <<detector, isWebcamReady, hasVideoStream, videoOk,
                   currentActivity, previousPositions, wristPositions, stream,
                   posLog, wristLog, lastCall>>

(* estimatePoses rejects: the catch block *)
EstimateThrows(c) ==
    /\ FrameAt(stream, c.frame).throws
    /\ hasVideoStream' = FALSE
    /\ inflight' = inflight \ {c}
    /\ UNCHANGED <<detector, isWebcamReady, videoOk, currentActivity,
                   previousPositions, wristPositions, stream, pos,
                   posLog, wristLog, lastCall>>

(* pose.length > 0 && pose[0].score && pose[0].score > 0.3 *)
poseAccepted(f) == f.poses > 0 /\ f.score # 0 /\ f.score > 30

(* estimatePoses resolves with no usable pose: nothing is set *)
PoseRejected(c) ==
    /\ ~FrameAt(stream, c.frame).throws
    /\ ~poseAccepted(FrameAt(stream, c.frame))
    /\ inflight' = inflight \ {c}
    /\ UNCHANGED <<detector, isWebcamReady, hasVideoStream, videoOk,
                   currentActivity, previousPositions, wristPositions, stream,
                   pos, posLog, wristLog, lastCall>>

(* An update that is skipped when any required keypoint is missing *)
updatePreviousPositionsIfComplete(prev, keypoints) ==
    LET nose == findKeypoint(keypoints, "nose")
    IN  IF ~anyMissing(keypoints)
        THEN Append(sliceLast(prev, 9), [x |-> nose.x, y |-> nose.y])
        ELSE prev

(* An update that puts the new sample first *)
updatePreviousPositionsPrepend(prev, keypoints) ==
    LET nose == findKeypoint(keypoints, "nose")
    IN  IF nose # undefined
        THEN <<[x |-> nose.x, y |-> nose.y]>> \o sliceLast(prev, 9)
        ELSE prev

(* setPreviousPositions((prev) => [...prev.slice(-9), {x: nose.x, y: nose.y}]) *)
(* under if (nose)                                                          *)
updatePreviousPositions(prev, keypoints) ==
    LET nose == findKeypoint(keypoints, "nose")
    IN  IF nose # undefined
        THEN Append(sliceLast(prev, 9), [x |-> nose.x, y |-> nose.y])
        ELSE prev

(* An update that keeps 20 old samples *)
updateWristPositionsSlice20(prev, keypoints) ==
    LET leftWrist == findKeypoint(keypoints, "left_wrist")
        rightWrist == findKeypoint(keypoints, "right_wrist")
    IN  IF leftWrist # undefined /\ rightWrist # undefined
        THEN Append(sliceLast(prev, 20),
                    [left |-> [x |-> leftWrist.x, y |-> leftWrist.y],
                     right |-> [x |-> rightWrist.x, y |-> rightWrist.y]])
        ELSE prev

(* setWristPositions((prev) => [...prev.slice(-19), {left, right}]) under   *)
(* if (leftWrist && rightWrist)                                             *)
updateWristPositions(prev, keypoints) ==
    LET leftWrist == findKeypoint(keypoints, "left_wrist")
        rightWrist == findKeypoint(keypoints, "right_wrist")
    IN  IF leftWrist # undefined /\ rightWrist # undefined
        THEN Append(sliceLast(prev, 19),
                    [left |-> [x |-> leftWrist.x, y |-> leftWrist.y],
                     right |-> [x |-> rightWrist.x, y |-> rightWrist.y]])
        ELSE prev

(* The samples a frame offers to the two histories *)
noseSample(keypoints) ==
    [x |-> findKeypoint(keypoints, "nose").x, y |-> findKeypoint(keypoints, "nose").y]

wristSample(keypoints) ==
    [left |-> [x |-> findKeypoint(keypoints, "left_wrist").x,
               y |-> findKeypoint(keypoints, "left_wrist").y],
     right |-> [x |-> findKeypoint(keypoints, "right_wrist").x,
                y |-> findKeypoint(keypoints, "right_wrist").y]]

hasNose(keypoints) == \E i \in 1..Len(keypoints) : keypoints[i].name = "nose"

hasWrists(keypoints) ==
    /\ \E i \in 1..Len(keypoints) : keypoints[i].name = "left_wrist"
    /\ \E i \in 1..Len(keypoints) : keypoints[i].name = "right_wrist"

(* estimatePoses resolves with a pose: the continuation of detectPose.     *)
(* determineActivity reads the histories of the call's own closure; the    *)
(* functional updaters are applied to the current state.                   *)
PoseDetected(c) ==
    LET keypoints == KeypointsOf(FrameAt(stream, c.frame))
    IN  /\ ~FrameAt(stream, c.frame).throws
        /\ poseAccepted(FrameAt(stream, c.frame))
        /\ currentActivity' = determineActivity(keypoints, c.prev, c.wrist)
        /\ previousPositions' = updatePreviousPositions(previousPositions, keypoints)
        /\ wristPositions' = updateWristPositions(wristPositions, keypoints)
        /\ inflight' = inflight \ {c}
        /\ posLog' = IF hasNose(keypoints)
                     THEN Append(posLog, noseSample(keypoints)) ELSE posLog
        /\ wristLog' = IF hasWrists(keypoints)
                       THEN Append(wristLog, wristSample(keypoints)) ELSE wristLog
        /\ lastCall' = [frame |-> c.frame, prev |-> c.prev, wrist |-> c.wrist,
                        posBefore |-> previousPositions,
                        wristBefore |-> wristPositions]
        /\ UNCHANGED <<detector, isWebcamReady, hasVideoStream, videoOk, stream, pos>>

Next ==
    \/ LoadModel
    \/ OnUserMedia
    \/ VideoPlays
    \/ CheckVideoStream
    \/ DetectPoseStart
    \/ \E c \in inflight : EstimateThrows(c)
    \/ \E c \in inflight : PoseRejected(c)
    \/ \E c \in inflight : PoseDetected(c)

Spec == Init /\ [][Next]_vars

(* In a running session LoadModel, OnUserMedia and VideoPlays are disabled  *)
NextMid ==
    \/ CheckVideoStream
    \/ DetectPoseStart
    \/ \E c \in inflight : EstimateThrows(c)
    \/ \E c \in inflight : PoseRejected(c)
    \/ \E c \in inflight : PoseDetected(c)

SpecMid == InitMid /\ [][NextMid]_vars

----------------------------------------------------------------------------
(* Vocabulary of the properties.  lastCall is the detectPose call whose    *)
(* continuation ran last: its frame, the histories its closure read        *)
(* (prev, wrist) and the histories the React state held at that moment     *)
(* (posBefore, wristBefore).                                               *)

Classified == lastCall.frame # 0

LastKeypoints == KeypointsOf(FrameAt(stream, lastCall.frame))

Complete(keypoints) ==
    RequiredNames \subseteq {keypoints[i].name : i \in 1..Len(keypoints)}

(* h is the last cap entries of log, in the order of log *)
IsLastWindow(h, log, cap) ==
    /\ Len(h) = Min(Len(log), cap)
    /\ \A i \in 1..Len(h) : h[i] = log[Len(log) - Len(h) + i]

(* after is before with sample added at the end, the oldest entry dropped  *)
(* when that would exceed cap                                              *)
AppendedTo(after, before, sample, cap) ==
    /\ Len(after) = Min(Len(before) + 1, cap)
    /\ after[Len(after)] = sample
    /\ \A i \in 1..(Len(after) - 1) :
          after[i] = before[Len(before) - Len(after) + 1 + i]

(* The condition of each rule of the decision procedure *)
RuleOrder ==
    <<"Raising Hands", "Waving", "Squatting", "Sitting", "Movement", "Standing">>

RuleHolds(label, f, prev, wrist) ==
    CASE label = "Raising Hands" -> armsRaised(f)
      [] label = "Waving" -> isWaving(wrist)
      [] label = "Squatting" -> isSquatting(f)
      [] label = "Sitting" -> isSitting(f)
      [] label = "Movement" -> isMoving([x |-> f.nose.x, y |-> f.nose.y], prev)
      [] label = "Standing" -> isStanding(f)

FirstRule(keypoints, prev, wrist) ==
    LET f == poseFeatures(keypoints)
        hit == {k \in 1..Len(RuleOrder) : RuleHolds(RuleOrder[k], f, prev, wrist)}
    IN  IF hit = {} THEN "Stable"
        ELSE RuleOrder[CHOOSE k \in hit : \A j \in hit : k <= j]

(* Sum of |h[i][side][axis] - h[i-1][side][axis]| for i in from..to *)
RECURSIVE DeltaSum(_, _, _, _, _)
DeltaSum(h, side, axis, from, to) ==
    IF from > to THEN 0
    ELSE Abs(h[to][side][axis] - h[to - 1][side][axis])
         + DeltaSum(h, side, axis, from, to - 1)

(* Over the last 10 samples of h, the mean of the 9 horizontal deltas of   *)
(* one wrist exceeds 20 and twice the mean of its 9 vertical deltas        *)
SideWaves(h, side) ==
    LET n == Len(h)
        dx == DeltaSum(h, side, "x", n - 8, n)
        dy == DeltaSum(h, side, "y", n - 8, n)
    IN  dx > 20 * 9 /\ dx > 2 * dy

(* Sum of the distances between the consecutive positions h[1..to] *)
RECURSIVE StepSum(_, _)
StepSum(h, to) ==
    IF to < 2 THEN 0 ELSE calculateDistance(h[to - 1], h[to]) + StepSum(h, to - 1)

----------------------------------------------------------------------------
(* C1: PositionHistory holds at most 10 samples and WristHistory at most   *)
(* 20, and each is exactly the most recent 10 (20) appended samples, in    *)
(* the order they were appended.                                           *)
C1_HistoryWindows ==
    /\ Len(previousPositions) <= 10
    /\ Len(wristPositions) <= 20
    /\ IsLastWindow(previousPositions, posLog, 10)
    /\ IsLastWindow(wristPositions, wristLog, 20)

(* Both histories have evicted samples *)
C1_Witness ==
    /\ Len(posLog) > 10
    /\ Len(wristLog) > 20
    /\ previousPositions[10] = posLog[Len(posLog)]
    /\ wristPositions[1] = wristLog[Len(wristLog) - 19]

C3_FirstMatchingRule ==
    (Classified /\ Complete(LastKeypoints)) =>
        currentActivity = FirstRule(LastKeypoints, lastCall.prev, lastCall.wrist)

(* A frame meeting both the Raising Hands and the Standing conditions was  *)
(* labelled Raising Hands                                                  *)
C3_Witness ==
    /\ Classified
    /\ Complete(LastKeypoints)
    /\ RuleHolds("Raising Hands", poseFeatures(LastKeypoints),
                 lastCall.prev, lastCall.wrist)
    /\ RuleHolds("Standing", poseFeatures(LastKeypoints),
                 lastCall.prev, lastCall.wrist)
    /\ currentActivity = "Raising Hands"

(* C4 as stated: at most one detectPose call is in flight at any time.     *)
C4_OneCallInFlight == Cardinality(inflight) <= 1

(* C5: Movement is never the label while fewer than 5 positions are stored *)
(* or read, and Waving never while fewer than 10 wrist pairs are.          *)
C5_ColdStart ==
    /\ currentActivity = "Movement" =>
          /\ Len(lastCall.prev) >= 5
          /\ Len(lastCall.posBefore) >= 5
    /\ currentActivity = "Waving" =>
          /\ Len(lastCall.wrist) >= 10
          /\ Len(lastCall.wristBefore) >= 10

(* A frame was classified on 4 stored positions that are 20 apart, and was *)
(* not labelled Movement                                                   *)
C5_Witness ==
    /\ Classified
    /\ Len(lastCall.prev) = 4
    /\ StepSum(lastCall.prev, 4) > 15 * 3
    /\ currentActivity = "Standing"

(* C6 as stated: a complete frame with a required keypoint of low score is *)
(* labelled Stable.                                                        *)
C6_LowScoreIsStable ==
    (/\ Classified
     /\ Complete(LastKeypoints)
     /\ \E i \in 1..Len(LastKeypoints) :
           /\ LastKeypoints[i].name \in RequiredNames
           /\ LastKeypoints[i].score < 30)
    => currentActivity = "Stable"

(* The keypoints with every score set to 0.9 *)
Confident(keypoints) ==
    [i \in 1..Len(keypoints) |-> [keypoints[i] EXCEPT !.score = 90]]

(* C6 amended: a keypoint's score has no effect.  A complete frame is      *)
(* classified from its coordinates by the posture rules whatever the       *)
(* scores of its keypoints; the only confidence gate is the pose score,    *)
(* which exceeds 0.3 in every frame that is classified.                    *)
C6_ScoreIgnored ==
    Classified =>
        /\ poseAccepted(FrameAt(stream, lastCall.frame))
        /\ Complete(LastKeypoints) =>
              currentActivity = FirstRule(Confident(LastKeypoints),
                                          lastCall.prev, lastCall.wrist)

(* A complete frame with a low-score right_ankle was labelled Raising Hands *)
C6_Witness ==
    /\ Classified
    /\ Complete(LastKeypoints)
    /\ findKeypoint(LastKeypoints, "right_ankle").score < 30
    /\ currentActivity = "Raising Hands"

(* C7: a frame with all 13 required keypoints appends exactly its nose     *)
(* sample to PositionHistory and its wrist pair to WristHistory, whatever  *)
(* its label.                                                              *)
C7_CompleteFrameAppends ==
    (Classified /\ Complete(LastKeypoints)) =>
        /\ AppendedTo(previousPositions, lastCall.posBefore,
                      noseSample(LastKeypoints), 10)
        /\ AppendedTo(wristPositions, lastCall.wristBefore,
                      wristSample(LastKeypoints), 20)

(* A complete frame labelled Stable was appended to two full histories *)
C7_Witness ==
    /\ Classified
    /\ Complete(LastKeypoints)
    /\ currentActivity = "Stable"
    /\ Len(lastCall.posBefore) = 10
    /\ Len(lastCall.wristBefore) = 20
    /\ previousPositions[10] = noseSample(LastKeypoints)
    /\ wristPositions[20] = wristSample(LastKeypoints)

(* The squat geometry of the specification, apart from the nose *)
SquatGeometry(f) ==
    /\ f.leftKneeAngle < 100000
    /\ f.rightKneeAngle < 100000
    /\ f.leftHipAngle > 45000
    /\ f.rightHipAngle > 45000
    /\ Abs(f.leftShoulder.y - f.rightShoulder.y) < 30

NoseAboveShoulders(f) == 2 * f.nose.y < f.leftShoulder.y + f.rightShoulder.y

(* C8 as stated: Squatting is only returned with the nose above the        *)
(* shoulder midpoint, and is returned for a squat with the nose above it   *)
(* that is neither Raising Hands nor Waving.                               *)
C8_SquatNoseAbove ==
    (Classified /\ Complete(LastKeypoints)) =>
        LET f == poseFeatures(LastKeypoints)
        IN  /\ currentActivity = "Squatting" => NoseAboveShoulders(f)
            /\ (/\ SquatGeometry(f)
                /\ NoseAboveShoulders(f)
                /\ ~armsRaised(f)
                /\ ~isWaving(lastCall.wrist))
               => currentActivity = "Squatting"

(* C9: on a wrist history of at least 10 samples, the frame is Waving      *)
(* (unless it is Raising Hands) exactly when, over the last 10 samples,    *)
(* the left or the right wrist has a mean horizontal delta above 20 and    *)
(* above twice its mean vertical delta.                                    *)
C9_WavingRule ==
    (/\ Classified
     /\ Complete(LastKeypoints)
     /\ Len(lastCall.wrist) >= 10
     /\ ~armsRaised(poseFeatures(LastKeypoints)))
    => (currentActivity = "Waving"
          <=> (SideWaves(lastCall.wrist, "left") \/ SideWaves(lastCall.wrist, "right")))

(* Waving was returned on a history longer than 10 in which only the right *)
(* wrist waves                                                             *)
C9_Witness ==
    /\ Classified
    /\ Complete(LastKeypoints)
    /\ Len(lastCall.wrist) > 10
    /\ ~SideWaves(lastCall.wrist, "left")
    /\ SideWaves(lastCall.wrist, "right")
    /\ currentActivity = "Waving"

(* C10 as stated: the histories a call classifies on are the histories of  *)
(* the React state at that moment, with every earlier append in them.      *)
C10_FreshHistories ==
    Classified =>
        /\ lastCall.prev = lastCall.posBefore
        /\ lastCall.wrist = lastCall.wristBefore

====
